---------------------------- MODULE Spec2Model ----------------------------
(***************************************************************************)
(* A model of the authenticating forward proxy of src/src/main.rs:         *)
(*   - Config::is_valid_basic  (Proxy-Authorization: Basic ... admission)  *)
(*   - handle_request          (health check, authentication, dispatch)    *)
(*   - handle_http             (one outbound round trip)                   *)
(*   - handle_connect          (target resolution, detached tunnel task)   *)
(*   - tunnel                  (dial, bidirectional copy)                  *)
(* Strings are sequences of byte values, as the Rust code sees them.       *)
(***************************************************************************)
EXTENDS Integers, Sequences, FiniteSets, TLC

VARIABLES
    users,      \* Config.users: username -> password (byte strings)
    authIn,     \* AuthSpec: the header handed to is_valid_basic
    authOut,    \* AuthSpec: <<>>, or <<b>> once is_valid_basic returned b
    authResp,   \* AuthSpec: the response of handle_request's line 112
    connIn,     \* ResolveSpec: the request of a CONNECT (target and Uri)
    connOut,    \* ResolveSpec: <<>>, or <<t>> once target t goes to tunnel
    req,        \* req[r]: the request handle_request was called with
    phase,      \* req's place: "idle", "spawned", "forwarding", "responded"
    resp,       \* resp[r]: the response handle_request returned
    respSent,   \* respSent[r]: hyper has written resp[r] to the client
    outbound,   \* outbound[r]: client.request calls made by handle_http
    tunnel,     \* tunnel[r]: the place of the task spawned at line 182
    upgraded,   \* upgraded[r]: hyper::upgrade::on returned Ok(upgraded)
    dialed,     \* dialed[r]: TcpStream::connect has been called
    streams,    \* streams[r]: the streams the task owns (upgraded, server)
    peer,       \* peer[r][side]: "open", "shut" (write side), "closed"
    written,    \* written[r][d]: all the bytes the source peer of d wrote
    wire,       \* wire[r][d]: bytes written and not yet read by the copy
    buf,        \* buf[r][d]: bytes read and not yet written by the copy
    delivered,  \* delivered[r][d]: bytes written to the destination of d
    dirSt       \* dirSt[r][d]: "Running", or "Done" once d was shut down

pureVars == <<authIn, authOut, authResp, connIn, connOut>>
reqVars == <<req, phase, resp, respSent, outbound>>
tunVars == <<tunnel, upgraded, dialed, streams, peer>>
relayVars == <<written, wire, buf, delivered, dirSt>>
vars == <<users, pureVars, reqVars, tunVars, relayVars>>

(***************************************************************************)
(* Byte strings.                                                           *)
(***************************************************************************)

\* The printable ASCII characters, in code order starting at 32 (space);
\* the three that a string literal cannot hold are spelled out.
AsciiChars ==
    <<" ", "!", "DQUOTE", "#", "$", "%", "&", "'", "(", ")", "*", "+", ",", "-",
      ".", "/", "0", "1", "2", "3", "4", "5", "6", "7", "8", "9", ":", ";",
      "<", "=", ">", "?", "@", "A", "B", "C", "D", "E", "F", "G", "H", "I",
      "J", "K", "L", "M", "N", "O", "P", "Q", "R", "S", "T", "U", "V", "W",
      "X", "Y", "Z", "[", "BACKSLASH", "]", "^", "_", "BACKTICK", "a", "b", "c", "d", "e",
      "f", "g", "h", "i", "j", "k", "l", "m", "n", "o", "p", "q", "r", "s",
      "t", "u", "v", "w", "x", "y", "z", "{", "|", "}", "~">>

\* The byte value of a printable ASCII character.
Ord(c) == 31 + (CHOOSE i \in 1..Len(AsciiChars) : AsciiChars[i] = c)

\* The byte string of a sequence of printable ASCII characters.
Str(cs) == [i \in 1..Len(cs) |-> Ord(cs[i])]

Tab == <<9>>

\* The least index of byte b in s, 0 when there is none.
IndexOf(s, b) ==
    IF \E i \in 1..Len(s) : s[i] = b
    THEN CHOOSE i \in 1..Len(s) : s[i] = b /\ \A j \in 1..(i - 1) : s[j] # b
    ELSE 0

\* str::contains(pat) for a byte string pattern.
Contains(s, pat) ==
    \E i \in 0..(Len(s) - Len(pat)) :
        \A j \in 1..Len(pat) : s[i + j] = pat[j]

\* The least offset (0-based) at which pat occurs in s; Len(s) when none.
FindStr(s, pat) ==
    IF Contains(s, pat)
    THEN CHOOSE i \in 0..(Len(s) - Len(pat)) :
            /\ \A j \in 1..Len(pat) : s[i + j] = pat[j]
            /\ \A k \in 0..(i - 1) : \E j \in 1..Len(pat) : s[k + j] # pat[j]
    ELSE Len(s)

Prefix(s, n) == SubSeq(s, 1, n)
Suffix(s, n) == SubSeq(s, n + 1, Len(s))

IsPrefixOf(p, s) == Len(p) <= Len(s) /\ Prefix(s, Len(p)) = p

(***************************************************************************)
(* Config::is_valid_basic and the library functions it calls.              *)
(***************************************************************************)

\* HeaderValue::to_str succeeds iff every byte is visible ASCII or a tab.
ToStrOk(value) ==
    \A i \in 1..Len(value) : value[i] = 9 \/ (value[i] >= 32 /\ value[i] < 127)

\* char::is_whitespace, on the bytes a to_str-able value can hold.
IsWhitespace(b) == b \in {9, 10, 11, 12, 13, 32}

\* str::split_whitespace: the maximal runs of non-whitespace bytes, in order.
RECURSIVE SplitWhitespace(_)
SplitWhitespace(v) ==
    IF v = <<>> THEN <<>>
    ELSE IF IsWhitespace(v[1]) THEN SplitWhitespace(Tail(v))
    ELSE LET ws  == {i \in 1..Len(v) : IsWhitespace(v[i])}
             end == IF ws = {} THEN Len(v)
                    ELSE (CHOOSE i \in ws : \A j \in ws : i <= j) - 1
         IN  <<Prefix(v, end)>> \o SplitWhitespace(Suffix(v, end))

ToAsciiLower(b) == IF b >= 65 /\ b <= 90 THEN b + 32 ELSE b

\* A comparison of the scheme word that minds the letter case (==).
EqIgnoreAsciiCase_exact(a, b) == a = b

\* str::eq_ignore_ascii_case
EqIgnoreAsciiCase(a, b) ==
    /\ Len(a) = Len(b)
    /\ \A i \in 1..Len(a) : ToAsciiLower(a[i]) = ToAsciiLower(b[i])

\* The standard base64 alphabet: value v is written as Base64Alphabet[v + 1].
Base64Alphabet ==
    Str(<<"A", "B", "C", "D", "E", "F", "G", "H", "I", "J", "K", "L", "M",
          "N", "O", "P", "Q", "R", "S", "T", "U", "V", "W", "X", "Y", "Z",
          "a", "b", "c", "d", "e", "f", "g", "h", "i", "j", "k", "l", "m",
          "n", "o", "p", "q", "r", "s", "t", "u", "v", "w", "x", "y", "z",
          "0", "1", "2", "3", "4", "5", "6", "7", "8", "9", "+", "/">>)

PadByte == Ord("=")

IsBase64Symbol(b) == \E i \in 1..64 : Base64Alphabet[i] = b

Base64Value(b) == (CHOOSE i \in 1..64 : Base64Alphabet[i] = b) - 1

\* The bytes of one group of four symbols, the last n of them padding.
DecodeQuad(q, n) ==
    LET a == Base64Value(q[1])
        b == Base64Value(q[2])
        c == IF n >= 2 THEN 0 ELSE Base64Value(q[3])
        d == IF n >= 1 THEN 0 ELSE Base64Value(q[4])
        w == a * 262144 + b * 4096 + c * 64 + d
        bytes == <<w \div 65536, (w \div 256) % 256, w % 256>>
    IN  Prefix(bytes, 3 - n)

\* BASE64.decode with the STANDARD engine: canonical padding is required,
\* padding may only end the input and the unused trailing bits must be zero.
\* The result is [ok |-> BOOLEAN, bytes |-> the decoded bytes].
RECURSIVE Base64Decode(_)
Base64Decode(s) ==
    IF s = <<>> THEN [ok |-> TRUE, bytes |-> <<>>]
    ELSE IF Len(s) < 4 THEN [ok |-> FALSE, bytes |-> <<>>]
    ELSE
        LET q    == Prefix(s, 4)
            last == Len(s) = 4
            n    == IF q[4] # PadByte THEN 0 ELSE IF q[3] # PadByte THEN 1 ELSE 2
            symbolsOk == \A i \in 1..(4 - n) : IsBase64Symbol(q[i])
            bitsOk ==
                CASE n = 0 -> TRUE
                  [] n = 1 -> Base64Value(q[3]) % 4 = 0
                  [] n = 2 -> Base64Value(q[2]) % 16 = 0
            rest == Base64Decode(Suffix(s, 4))
        IN  IF ~symbolsOk \/ (n > 0 /\ ~last) \/ ~bitsOk
            THEN [ok |-> FALSE, bytes |-> <<>>]
            ELSE IF ~rest.ok THEN rest
            ELSE [ok |-> TRUE, bytes |-> DecodeQuad(q, n) \o rest.bytes]

IsCont(b) == b >= 128 /\ b <= 191

\* String::from_utf8 succeeds iff the bytes are well-formed UTF-8.
RECURSIVE IsUtf8(_)
IsUtf8(s) ==
    IF s = <<>> THEN TRUE
    ELSE LET b == s[1] IN
        CASE b < 128 -> IsUtf8(Tail(s))
          [] b >= 194 /\ b <= 223 ->
                Len(s) >= 2 /\ IsCont(s[2]) /\ IsUtf8(Suffix(s, 2))
          [] b >= 224 /\ b <= 239 ->
                /\ Len(s) >= 3 /\ IsCont(s[2]) /\ IsCont(s[3])
                /\ (b = 224 => s[2] >= 160)
                /\ (b = 237 => s[2] <= 159)
                /\ IsUtf8(Suffix(s, 3))
          [] b >= 240 /\ b <= 244 ->
                /\ Len(s) >= 4 /\ IsCont(s[2]) /\ IsCont(s[3]) /\ IsCont(s[4])
                /\ (b = 240 => s[2] >= 144)
                /\ (b = 244 => s[2] <= 143)
                /\ IsUtf8(Suffix(s, 4))
          [] OTHER -> FALSE

Colon == Ord(":")

\* The user of str::rsplit_once(':'): the text before the last ':'.
SplitUser_before_last_colon(creds) ==
    Prefix(creds, (CHOOSE i \in 1..Len(creds) :
                      /\ creds[i] = Colon
                      /\ \A j \in (i + 1)..Len(creds) : creds[j] # Colon) - 1)

\* str::split_once(':'): the text before and after the first ':'.
HasColon(creds) == IndexOf(creds, Colon) # 0
SplitUser(creds) == Prefix(creds, IndexOf(creds, Colon) - 1)
SplitPass(creds) == Suffix(creds, IndexOf(creds, Colon))

\* An absent header (Option::None) and a present one.
NoHeader == [some |-> FALSE, value |-> <<>>]
SomeHeader(v) == [some |-> TRUE, value |-> v]

BasicWord == Str(<<"B", "a", "s", "i", "c">>)

\* is_valid_basic without the comparison of line 51: a known user is let in
\* whatever the password.
is_valid_basic_any_password(u, header) ==
    /\ header.some
    /\ ToStrOk(header.value)
    /\ LET parts == SplitWhitespace(header.value) IN
        /\ Len(parts) = 2
        /\ EqIgnoreAsciiCase(parts[1], BasicWord)
        /\ LET decoded == Base64Decode(parts[2]) IN
            /\ decoded.ok
            /\ IsUtf8(decoded.bytes)
            /\ HasColon(decoded.bytes)
            /\ SplitUser(decoded.bytes) \in DOMAIN u

\* Config::is_valid_basic for the users map u.
is_valid_basic(u, header) ==
    /\ header.some
    /\ ToStrOk(header.value)
    /\ LET parts == SplitWhitespace(header.value) IN
        /\ Len(parts) = 2
        /\ EqIgnoreAsciiCase(parts[1], BasicWord)
        /\ LET decoded == Base64Decode(parts[2]) IN
            /\ decoded.ok
            /\ IsUtf8(decoded.bytes)
            /\ HasColon(decoded.bytes)
            /\ SplitUser(decoded.bytes) \in DOMAIN u
            /\ u[SplitUser(decoded.bytes)] = SplitPass(decoded.bytes)


(***************************************************************************)
(* Requests a client can send: header values for is_valid_basic.           *)
(***************************************************************************)

\* What a client's base64 encoder writes for a group of 1..3 bytes.
EncodeGroup(g) ==
    LET n == Len(g)
        w == g[1] * 65536 + (IF n >= 2 THEN g[2] * 256 ELSE 0)
                          + (IF n >= 3 THEN g[3] ELSE 0)
        sym(v) == Base64Alphabet[v + 1]
    IN  << sym(w \div 262144), sym((w \div 4096) % 64),
           IF n >= 2 THEN sym((w \div 64) % 64) ELSE PadByte,
           IF n >= 3 THEN sym(w % 64) ELSE PadByte >>

\* Standard padded base64 of a byte string.
RECURSIVE Base64Encode(_)
Base64Encode(s) ==
    IF s = <<>> THEN <<>>
    ELSE IF Len(s) <= 3 THEN EncodeGroup(s)
    ELSE EncodeGroup(Prefix(s, 3)) \o Base64Encode(Suffix(s, 3))

Space == Str(<<" ">>)

\* The users maps config.toml may hold.
UserMaps ==
    { (Str(<<"u">>) :> Str(<<"p">>)),
      (Str(<<"u">>) :> Str(<<"p", ":", "q">>)),
      (Str(<<"u">>) :> Str(<<"p">>)) @@ (Str(<<"v">>) :> Str(<<"P", " ">>)),
      (Str(<<"u">>) :> Str(<<"p">>)) @@ (Str(<<"u", ":", "p">>) :> Str(<<"q">>)) }

\* Credential texts a client may encode: right and wrong ones, with and
\* without separator, with several separators, padded with blanks, in
\* another letter case, not ASCII, not UTF-8.
CredTexts ==
    { Str(<<"u", ":", "p">>), Str(<<"u", ":", "P">>), Str(<<"U", ":", "p">>),
      Str(<<"u", ":", "p", " ">>), Str(<<" ", "u", ":", "p">>),
      Str(<<"v", ":", "P", " ">>), Str(<<"v", ":", "P">>),
      Str(<<"u">>), <<>>, Str(<<"u", ":">>), Str(<<":", "p">>),
      Str(<<"u", ":", "p", ":", "q">>), Str(<<"x", ":", "p">>),
      <<255>> \o Str(<<":", "p">>), Str(<<"u", ":">>) \o <<255>>,
      <<195, 169>> \o Str(<<":", "p">>) }

\* Payloads: the encodings of the texts, and strings that are not base64
\* (a forbidden symbol, missing padding, non-zero trailing bits).
Payloads ==
    { Base64Encode(t) : t \in CredTexts }
        \cup { Str(<<"d", "T", "p", "!">>), Str(<<"d", "T", "o">>),
               Str(<<"d", "T", "p", "=">>), Str(<<"d", "T", "p", "w", "=">>) }

SchemeWords ==
    { BasicWord, Str(<<"b", "a", "s", "i", "c">>), Str(<<"B", "A", "S", "I", "C">>),
      Str(<<"B", "e", "a", "r", "e", "r">>), Str(<<"B", "a", "s", "i">>) }

Separators == { Space, Space \o Space, Tab, <<>> }

\* Every Proxy-Authorization header of the bounded client: none, a scheme
\* word and a payload with blanks around them, a lone word, three words, a
\* value that is not visible ASCII.
AuthHeaders ==
    { NoHeader }
        \cup { SomeHeader(w \o sep \o p) :
                 w \in SchemeWords, sep \in Separators, p \in Payloads }
        \cup { SomeHeader(w) : w \in SchemeWords }
        \cup { SomeHeader(BasicWord \o Space \o p \o Space \o p) : p \in Payloads }
        \cup { SomeHeader(BasicWord \o Space \o p \o <<233>>) : p \in Payloads }



(***************************************************************************)
(* hyper::Uri as handle_connect uses it: parse, authority, Display.        *)
(* A Uri is [scheme, authority, path]: byte strings, <<>> when absent;     *)
(* path holds the path and the query.                                      *)
(***************************************************************************)

SchemeSep == Str(<<":", "/", "/">>)

IsAlnum(b) == b \in 48..57 \/ b \in 65..90 \/ b \in 97..122

IsSchemeChar(b) == IsAlnum(b) \/ b \in {Ord("+"), Ord("-"), Ord(".")}

\* The bytes an authority may hold.
IsAuthorityChar(b) ==
    \/ IsAlnum(b)
    \/ b \in { Ord("-"), Ord("."), Ord("_"), Ord("~"), Ord("!"), Ord("$"),
               Ord("&"), Ord("'"), Ord("("), Ord(")"), Ord("*"), Ord("+"),
               Ord(","), Ord(";"), Ord("="), Ord(":"), Ord("@"), Ord("["),
               Ord("]") }

\* The bytes a path and query may hold ('#' would start a fragment).
IsPathChar(b) == b >= 33 /\ b <= 126 /\ b # Ord("#")

\* The length of the scheme of s when s starts with scheme "://", else 0.
SchemeLen(s) ==
    LET i == IndexOf(s, Colon) IN
    IF /\ i > 1
       /\ \A j \in 1..(i - 1) : IsSchemeChar(s[j])
       /\ Len(s) >= i + 2 /\ s[i + 1] = Ord("/") /\ s[i + 2] = Ord("/")
    THEN i - 1 ELSE 0

\* The authority at the start of s ends before the first '/', '?' or '#'.
AuthorityEnd(s) ==
    LET stops == {i \in 1..Len(s) : s[i] \in {Ord("/"), Ord("?"), Ord("#")}}
    IN  IF stops = {} THEN Len(s)
        ELSE (CHOOSE i \in stops : \A j \in stops : i <= j) - 1

\* Authority::parse accepts a: its bytes are authority bytes, brackets pair
\* up, at most one ':' follows the last ']' or '@', and '@' does not end it.
AuthorityOk(a) ==
    LET resets == {i \in 1..Len(a) : a[i] \in {Ord("]"), Ord("@")}}
        from   == IF resets = {} THEN 0
                  ELSE CHOOSE i \in resets : \A j \in resets : j <= i
        colons == {i \in (from + 1)..Len(a) : a[i] = Colon}
        opens  == {i \in 1..Len(a) : a[i] = Ord("[")}
        closes == {i \in 1..Len(a) : a[i] = Ord("]")}
    IN  /\ \A i \in 1..Len(a) : IsAuthorityChar(a[i])
        /\ Cardinality(opens) <= 1 /\ Cardinality(closes) = Cardinality(opens)
        /\ \A i \in opens, j \in closes : i < j
        /\ Cardinality(colons) <= 1
        /\ (a # <<>> => a[Len(a)] # Ord("@"))

NoUri == [scheme |-> <<>>, authority |-> <<>>, path |-> <<>>]

\* str::parse::<Uri>: [ok |-> BOOLEAN, uri |-> the Uri].
ParseUri(s) ==
    LET fail == [ok |-> FALSE, uri |-> NoUri] IN
    IF s = <<>> THEN fail
    ELSE IF s[1] = Ord("/") THEN
        \* origin form: a path and query only
        IF \A i \in 1..Len(s) : IsPathChar(s[i])
        THEN [ok |-> TRUE, uri |-> [scheme |-> <<>>, authority |-> <<>>, path |-> s]]
        ELSE fail
    ELSE
        LET n    == SchemeLen(s)
            rest == IF n = 0 THEN s ELSE Suffix(s, n + 3)
            e    == AuthorityEnd(rest)
            a    == Prefix(rest, e)
            pq   == Suffix(rest, e)
            frag == IndexOf(pq, Ord("#"))
            path == IF frag = 0 THEN pq ELSE Prefix(pq, frag - 1)
        IN  IF ~AuthorityOk(a) THEN fail
            ELSE IF n = 0
            THEN \* authority form: nothing may follow the authority
                 IF e # Len(rest) THEN fail
                 ELSE [ok |-> TRUE,
                       uri |-> [scheme |-> <<>>, authority |-> a, path |-> <<>>]]
            ELSE \* absolute form: the authority may not be empty
                 IF e = 0 \/ ~(\A i \in 1..Len(path) : IsPathChar(path[i])) THEN fail
                 ELSE [ok |-> TRUE,
                       uri |-> [scheme |-> Prefix(s, n), authority |-> a,
                                path |-> path]]

\* Uri::path followed by the query: "/" stands for the empty path of a Uri
\* that has a scheme.
PathAndQuery(uri) ==
    IF uri.scheme # <<>> /\ (uri.path = <<>> \/ uri.path[1] = Ord("?"))
    THEN Str(<<"/">>) \o uri.path
    ELSE uri.path

\* Uri's Display (to_string).
UriToString(uri) ==
    (IF uri.scheme # <<>> THEN uri.scheme \o SchemeSep ELSE <<>>)
        \o uri.authority \o PathAndQuery(uri)

(***************************************************************************)
(* handle_connect, lines 150-173: the target handed to the tunnel task.    *)
(***************************************************************************)

DefaultPort == Str(<<":", "4", "4", "3">>)

\* Lines 153-167: the authority of a URI that holds "://", else the string.
ExtractTarget(uri_str) ==
    IF Contains(uri_str, SchemeSep)
    THEN LET parsed == ParseUri(uri_str) IN
         IF parsed.ok
         THEN IF parsed.uri.authority # <<>>
              THEN parsed.uri.authority
              ELSE uri_str
         ELSE uri_str
    ELSE uri_str

\* Lines 150-173 with the test of line 170 made on uri_str, not on target.
ConnectTarget_port_test_on_uri(uri) ==
    LET uri_str == UriToString(uri)
        target  == ExtractTarget(uri_str)
    IN  IF ~Contains(uri_str, <<Colon>>) THEN target \o DefaultPort ELSE target

\* Lines 150-173: the dial target for the request URI uri.
ConnectTarget(uri) ==
    LET uri_str == UriToString(uri)
        target  == ExtractTarget(uri_str)
    IN  IF ~Contains(target, <<Colon>>) THEN target \o DefaultPort ELSE target

(***************************************************************************)
(* Request targets a client can send with CONNECT.                         *)
(***************************************************************************)

Schemes == { Str(<<"h", "t", "t", "p", "s">>), Str(<<"h", "t", "t", "p">>) }

\* Hosts written without ':' (names and IPv4 literals).
PlainHosts ==
    { Str(<<"e", "x", "a", "m", "p", "l", "e", ".", "c", "o", "m">>),
      Str(<<"h">>), Str(<<"1", "0", ".", "0", ".", "0", ".", "1">>) }

\* A bracketed IPv6 literal.
Ipv6Hosts == { Str(<<"[", ":", ":", "1", "]">>) }

Ports == { Str(<<":", "8", "4", "4", "3">>), Str(<<":", "8", "0">>) }

UserInfos == { Str(<<"u", "@">>), Str(<<"u", ":", "p", "@">>) }

Paths ==
    { Str(<<"/", "x">>), Str(<<"/">>), Str(<<"/", "x", "?", "q", "=", "1">>) }

\* Origin-form targets; the second holds "://" in its query.
OriginForms ==
    { Str(<<"/", "x">>),
      Str(<<"/", "x", "?", "u", "=", "a", ":", "/", "/", "b">>) }

\* Every request target of the bounded client: authority form and absolute
\* form, with and without userinfo, port and path, and the origin forms.
ConnectTargets ==
    { ui \o h \o pt :
        ui \in UserInfos \cup {<<>>}, h \in PlainHosts \cup Ipv6Hosts,
        pt \in Ports \cup {<<>>} }
    \cup
    { sc \o SchemeSep \o ui \o h \o pt \o pa :
        sc \in Schemes, ui \in UserInfos \cup {<<>>},
        h \in PlainHosts \cup Ipv6Hosts, pt \in Ports \cup {<<>>},
        pa \in Paths \cup {<<>>} }
    \cup OriginForms

\* The requests that reach the handler: hyper has parsed the target.
ConnectRequests ==
    { [raw |-> s, uri |-> ParseUri(s).uri] : s \in {t \in ConnectTargets : ParseUri(t).ok} }

(***************************************************************************)
(* Responses.                                                              *)
(***************************************************************************)

NoResponse == [status |-> 0, headers |-> {}, body |-> ""]

\* Lines 83-90 with the status of a plain refusal.
unauthorized_response_forbidden ==
    [ status  |-> 403,
      headers |-> {<<"Proxy-Authenticate", "Basic realm=\"Secure Proxy\"">>},
      body    |-> "Proxy authentication required" ]

\* unauthorized_response, lines 83-90.
unauthorized_response ==
    [ status  |-> 407,
      headers |-> {<<"Proxy-Authenticate", "Basic realm=\"Secure Proxy\"">>},
      body    |-> "Proxy authentication required" ]

\* Lines 102-105.
health_response == [status |-> 200, headers |-> {}, body |-> "OK"]

\* Lines 196-199.
connect_response == [status |-> 200, headers |-> {}, body |-> ""]

\* Lines 140-143: the body is "Proxy error: " and the error's text.
proxy_error_response == [status |-> 500, headers |-> {}, body |-> "Proxy error: <err>"]

\* What an origin may answer to a forwarded request.
OriginResponses ==
    { [status |-> 200, headers |-> {<<"content-type", "text/plain">>}, body |-> "origin"],
      [status |-> 404, headers |-> {}, body |-> "origin: not found"] }

(***************************************************************************)
(* Requests.                                                               *)
(***************************************************************************)

MaxRequests == 2
Reqs == 1..MaxRequests

NoRequest == [method |-> "", target |-> <<>>, header |-> NoHeader]

HealthPath == Str(<<"/", "h", "e", "a", "l", "t", "h">>)

\* The health test made on the whole request URI instead of its path.
UriPath_whole_uri(uri) == UriToString(uri)

\* Uri::path: the path without the query; "/" for the empty path of a Uri
\* with a scheme, "" for an authority-form Uri.
UriPath(uri) ==
    LET pq == PathAndQuery(uri)
        q  == IndexOf(pq, Ord("?"))
    IN  IF q = 0 THEN pq ELSE Prefix(pq, q - 1)

\* The users map of the config.toml the server was started with.
ServerUsers == (Str(<<"u">>) :> Str(<<"p">>))

\* The Proxy-Authorization headers of the server's clients: none, the right
\* credentials, a wrong password.
ServerHeaders ==
    { NoHeader,
      SomeHeader(BasicWord \o Space \o Base64Encode(Str(<<"u", ":", "p">>))),
      SomeHeader(BasicWord \o Space \o Base64Encode(Str(<<"u", ":", "x">>))) }

\* Request targets of GET and POST: origin form and absolute form.
HttpTargets ==
    { HealthPath,
      Str(<<"h", "t", "t", "p">>) \o SchemeSep \o Str(<<"h">>) \o HealthPath,
      Str(<<"h", "t", "t", "p">>) \o SchemeSep \o Str(<<"h", "/", "x">>) }

\* Request targets of CONNECT: authority form.
TunnelTargets == { Str(<<"h", ":", "8", "4", "4", "3">>) }

\* The requests of the bounded clients.
Requests ==
    { [method |-> m, target |-> t, header |-> h] :
        m \in {"GET", "POST"}, t \in HttpTargets, h \in ServerHeaders }
    \cup
    { [method |-> "CONNECT", target |-> t, header |-> h] :
        t \in TunnelTargets, h \in ServerHeaders }

\* The Uri hyper hands to the handler for a request target.
RequestUri(rq) == ParseUri(rq.target).uri

(***************************************************************************)
(* handle_request, lines 93-123.                                           *)
(***************************************************************************)

\* Lines 101-122 with the authentication skipped for CONNECT.
Route_connect_unauthenticated(u, rq) ==
    IF rq.method = "GET" /\ UriPath(RequestUri(rq)) = HealthPath THEN "health"
    ELSE IF rq.method = "CONNECT" THEN "connect"
    ELSE IF ~is_valid_basic(u, rq.header) THEN "deny"
    ELSE "http"

\* Lines 101-122 with the authentication made before the health check.
Route_auth_before_health(u, rq) ==
    IF ~is_valid_basic(u, rq.header) THEN "deny"
    ELSE IF rq.method = "GET" /\ UriPath(RequestUri(rq)) = HealthPath THEN "health"
    ELSE IF rq.method = "CONNECT" THEN "connect"
    ELSE "http"

\* The branch handle_request takes, lines 101-122.
Route(u, rq) ==
    IF rq.method = "GET" /\ UriPath(RequestUri(rq)) = HealthPath THEN "health"
    ELSE IF ~is_valid_basic(u, rq.header) THEN "deny"
    ELSE IF rq.method = "CONNECT" THEN "connect"
    ELSE "http"

\* Route, tabulated once for the bounded users maps and requests.
RouteOf == [u \in UserMaps \cup {ServerUsers}, rq \in Requests |-> Route(u, rq)]

\* handle_request writing to the users table of the configuration it is
\* handed: the password of every request's user is replaced.
HandleRequest_rewrites_users(r) ==
    /\ phase[r] = "idle"
    /\ \A q \in 1..(r - 1) : phase[q] # "idle"
    /\ \E rq \in Requests :
        LET route == RouteOf[users, rq] IN
        /\ req' = [req EXCEPT ![r] = rq]
        /\ phase' = [phase EXCEPT ![r] =
                        CASE route = "connect" -> "spawned"
                          [] route = "http"    -> "forwarding"
                          [] OTHER             -> "responded"]
        /\ resp' = [resp EXCEPT ![r] =
                        CASE route = "health" -> health_response
                          [] route = "deny"   -> unauthorized_response
                          [] OTHER            -> NoResponse]
        /\ outbound' = [outbound EXCEPT ![r] = IF route = "http" THEN 1 ELSE 0]
        /\ tunnel' = [tunnel EXCEPT ![r] =
                        IF route = "connect" THEN "Requested" ELSE "None"]
    /\ users' = (Str(<<"u">>) :> Str(<<"p", ":", "q">>))
    /\ UNCHANGED <<pureVars, respSent, upgraded, dialed, streams, peer, relayVars>>

\* handle_request up to its first await: the health answer, the denial, the
\* spawn of the tunnel task (handle_connect, lines 150-194) or the call of
\* client.request (handle_http, lines 128-129).
HandleRequest(r) ==
    /\ phase[r] = "idle"
    /\ \A q \in 1..(r - 1) : phase[q] # "idle"
    /\ \E rq \in Requests :
        LET route == RouteOf[users, rq] IN
        /\ req' = [req EXCEPT ![r] = rq]
        /\ phase' = [phase EXCEPT ![r] =
                        CASE route = "connect" -> "spawned"
                          [] route = "http"    -> "forwarding"
                          [] OTHER             -> "responded"]
        /\ resp' = [resp EXCEPT ![r] =
                        CASE route = "health" -> health_response
                          [] route = "deny"   -> unauthorized_response
                          [] OTHER            -> NoResponse]
        /\ outbound' = [outbound EXCEPT ![r] = IF route = "http" THEN 1 ELSE 0]
        /\ tunnel' = [tunnel EXCEPT ![r] =
                        IF route = "connect" THEN "Requested" ELSE "None"]
    /\ UNCHANGED <<users, pureVars, respSent, upgraded, dialed, streams, peer, relayVars>>

\* handle_http, lines 130-137: the origin's response is returned as it is.
HttpOk(r) ==
    /\ phase[r] = "forwarding"
    /\ \E o \in OriginResponses : resp' = [resp EXCEPT ![r] = o]
    /\ phase' = [phase EXCEPT ![r] = "responded"]
    /\ UNCHANGED <<users, pureVars, req, respSent, outbound, tunVars, relayVars>>

\* handle_http calling client.request again after a transport error.
HttpErr_retried(r) ==
    /\ phase[r] = "forwarding"
    /\ outbound[r] < 2
    /\ outbound' = [outbound EXCEPT ![r] = @ + 1]
    /\ UNCHANGED <<users, pureVars, req, phase, resp, respSent, tunVars, relayVars>>

\* handle_http, lines 138-144: a transport error becomes a 500.
HttpErr(r) ==
    /\ phase[r] = "forwarding"
    /\ resp' = [resp EXCEPT ![r] = proxy_error_response]
    /\ phase' = [phase EXCEPT ![r] = "responded"]
    /\ UNCHANGED <<users, pureVars, req, respSent, outbound, tunVars, relayVars>>

\* handle_connect awaiting the task it spawned before it returns the 200.
ReturnConnect_after_tunnel(r) ==
    /\ phase[r] = "spawned"
    /\ tunnel[r] \in {"Closed", "Errored"}
    /\ resp' = [resp EXCEPT ![r] = connect_response]
    /\ phase' = [phase EXCEPT ![r] = "responded"]
    /\ UNCHANGED <<users, pureVars, req, respSent, outbound, tunVars, relayVars>>

\* handle_connect, lines 196-199: the 200 is returned once the task has been
\* spawned; the task may already be running.
ReturnConnect(r) ==
    /\ phase[r] = "spawned"
    /\ resp' = [resp EXCEPT ![r] = connect_response]
    /\ phase' = [phase EXCEPT ![r] = "responded"]
    /\ UNCHANGED <<users, pureVars, req, respSent, outbound, tunVars, relayVars>>

\* hyper writes the returned response to the client (main, lines 301-313).
SendResponse(r) ==
    /\ phase[r] = "responded"
    /\ ~respSent[r]
    /\ tunnel[r] # "Errored"
    /\ respSent' = [respSent EXCEPT ![r] = TRUE]
    /\ UNCHANGED <<users, pureVars, req, phase, resp, outbound, tunVars, relayVars>>

(***************************************************************************)
(* The tunnel task, lines 182-194, and tunnel, lines 203-218.              *)
(***************************************************************************)

Sides == {"client", "target"}
Dirs == {"c2t", "t2c"}
Src(d) == IF d = "c2t" THEN "client" ELSE "target"
Dst(d) == IF d = "c2t" THEN "target" ELSE "client"
DirFrom(side) == IF side = "client" THEN "c2t" ELSE "t2c"

\* The bytes a peer writes per direction, and the size of the buffer of one
\* copy direction.
MaxBytes == 3
BufCap == 2

Min(a, b) == IF a <= b THEN a ELSE b

\* Line 183, Ok: hyper completes the upgrade once it has written the 200.
UpgradeOk(r) ==
    /\ tunnel[r] = "Requested"
    /\ respSent[r]
    /\ tunnel' = [tunnel EXCEPT ![r] = "Upgraded"]
    /\ upgraded' = [upgraded EXCEPT ![r] = TRUE]
    /\ streams' = [streams EXCEPT ![r] = {"client"}]
    /\ UNCHANGED <<users, pureVars, reqVars, dialed, peer, relayVars>>

\* The Err arm of line 183 calling tunnel all the same.
UpgradeErr_dials(r) ==
    /\ tunnel[r] = "Requested"
    /\ ~respSent[r]
    /\ tunnel' = [tunnel EXCEPT ![r] = "Dialing"]
    /\ dialed' = [dialed EXCEPT ![r] = TRUE]
    /\ peer' = [peer EXCEPT ![r]["client"] = "closed"]
    /\ UNCHANGED <<users, pureVars, reqVars, upgraded, streams, relayVars>>

\* Line 183, Err (lines 190-192): the connection was lost before the
\* response could be written; the task ends.
UpgradeErr(r) ==
    /\ tunnel[r] = "Requested"
    /\ ~respSent[r]
    /\ tunnel' = [tunnel EXCEPT ![r] = "Errored"]
    /\ peer' = [peer EXCEPT ![r]["client"] = "closed"]
    /\ UNCHANGED <<users, pureVars, reqVars, upgraded, dialed, streams, relayVars>>

\* Line 206 reached without the await of line 183.
Dial_without_upgrade(r) ==
    /\ tunnel[r] \in {"Requested", "Upgraded"}
    /\ tunnel' = [tunnel EXCEPT ![r] = "Dialing"]
    /\ dialed' = [dialed EXCEPT ![r] = TRUE]
    /\ UNCHANGED <<users, pureVars, reqVars, upgraded, streams, peer, relayVars>>

\* Lines 186 and 206: tunnel is called with the upgraded stream and calls
\* TcpStream::connect.
Dial(r) ==
    /\ tunnel[r] = "Upgraded"
    /\ tunnel' = [tunnel EXCEPT ![r] = "Dialing"]
    /\ dialed' = [dialed EXCEPT ![r] = TRUE]
    /\ UNCHANGED <<users, pureVars, reqVars, upgraded, streams, peer, relayVars>>

\* Lines 206-207: the target accepted the connection.
DialOk(r) ==
    /\ tunnel[r] = "Dialing"
    /\ tunnel' = [tunnel EXCEPT ![r] = "Connected"]
    /\ streams' = [streams EXCEPT ![r] = @ \cup {"target"}]
    /\ UNCHANGED <<users, pureVars, reqVars, upgraded, dialed, peer, relayVars>>

\* A failed dial after which the task keeps the upgraded stream.
DialErr_keeps_stream(r) ==
    /\ tunnel[r] = "Dialing"
    /\ tunnel' = [tunnel EXCEPT ![r] = "Errored"]
    /\ UNCHANGED <<users, pureVars, reqVars, upgraded, dialed, streams, peer, relayVars>>

\* Line 206, `?`, and lines 186-188: the dial failed; tunnel returns the
\* error and with it drops `upgraded`, which it owns; the task logs the
\* error and ends.
DialErr(r) ==
    /\ tunnel[r] = "Dialing"
    /\ tunnel' = [tunnel EXCEPT ![r] = "Errored"]
    /\ streams' = [streams EXCEPT ![r] = {}]
    /\ UNCHANGED <<users, pureVars, reqVars, upgraded, dialed, peer, relayVars>>

\* copy_bidirectional polled while TcpStream::connect is still pending.
StartRelay_before_connected(r) ==
    /\ tunnel[r] \in {"Dialing", "Connected"}
    /\ tunnel' = [tunnel EXCEPT ![r] = "Relaying"]
    /\ UNCHANGED <<users, pureVars, reqVars, upgraded, dialed, streams, peer, relayVars>>

\* Lines 209-210: copy_bidirectional is first polled.
StartRelay(r) ==
    /\ tunnel[r] = "Connected"
    /\ tunnel' = [tunnel EXCEPT ![r] = "Relaying"]
    /\ UNCHANGED <<users, pureVars, reqVars, upgraded, dialed, streams, peer, relayVars>>

\* The peer of a side has a connection to the proxy it can act on: the
\* client once it has the 200, the target once the dial succeeded; neither
\* after the task has ended and dropped both streams.
CanAct(r, side) ==
    IF side = "client"
    THEN respSent[r] /\ tunnel[r] \in {"Requested", "Upgraded", "Dialing", "Connected", "Relaying"}
    ELSE tunnel[r] \in {"Connected", "Relaying"}

\* The k-th byte a peer writes: the client counts from 1, the target from 101.
NextByte(r, side) ==
    (IF side = "client" THEN 0 ELSE 100) + Len(written[r][DirFrom(side)]) + 1

\* A peer writes one byte to its connection, at most MaxBytes per direction.
PeerWrite(r, side) ==
    LET d == DirFrom(side) IN
    /\ CanAct(r, side)
    /\ peer[r][side] = "open"
    /\ Len(written[r][d]) < MaxBytes
    /\ written' = [written EXCEPT ![r][d] = Append(@, NextByte(r, side))]
    /\ wire' = [wire EXCEPT ![r][d] = Append(@, NextByte(r, side))]
    /\ UNCHANGED <<users, pureVars, reqVars, tunVars, buf, delivered, dirSt>>

\* A peer shuts down the write side of its connection (half-close).
PeerShutdown(r, side) ==
    /\ CanAct(r, side)
    /\ peer[r][side] = "open"
    /\ peer' = [peer EXCEPT ![r][side] = "shut"]
    /\ UNCHANGED <<users, pureVars, reqVars, tunnel, upgraded, dialed, streams, relayVars>>

\* A peer closes its connection: it writes no more and reads no more.
PeerClose(r, side) ==
    /\ CanAct(r, side)
    /\ peer[r][side] \in {"open", "shut"}
    /\ peer' = [peer EXCEPT ![r][side] = "closed"]
    /\ UNCHANGED <<users, pureVars, reqVars, tunnel, upgraded, dialed, streams, relayVars>>

\* One read of a copy direction that overwrites the buffer it fills.
CopyRead_overwrite(r, d) ==
    /\ tunnel[r] = "Relaying"
    /\ dirSt[r][d] = "Running"
    /\ wire[r][d] # <<>>
    /\ Len(buf[r][d]) < BufCap
    /\ \E k \in 1..Min(Len(wire[r][d]), BufCap - Len(buf[r][d])) :
        /\ buf' = [buf EXCEPT ![r][d] = Prefix(wire[r][d], k)]
        /\ wire' = [wire EXCEPT ![r][d] = Suffix(@, k)]
    /\ UNCHANGED <<users, pureVars, reqVars, tunVars, written, delivered, dirSt>>

\* Line 210, one read of a copy direction: some of the bytes waiting on the
\* source stream go to the free end of the direction's buffer.
CopyRead(r, d) ==
    /\ tunnel[r] = "Relaying"
    /\ dirSt[r][d] = "Running"
    /\ wire[r][d] # <<>>
    /\ Len(buf[r][d]) < BufCap
    /\ \E k \in 1..Min(Len(wire[r][d]), BufCap - Len(buf[r][d])) :
        /\ buf' = [buf EXCEPT ![r][d] = @ \o Prefix(wire[r][d], k)]
        /\ wire' = [wire EXCEPT ![r][d] = Suffix(@, k)]
    /\ UNCHANGED <<users, pureVars, reqVars, tunVars, written, delivered, dirSt>>

\* Line 210, one write of a copy direction: the destination takes some of
\* the buffered bytes, in order.
CopyWrite(r, d) ==
    /\ tunnel[r] = "Relaying"
    /\ dirSt[r][d] = "Running"
    /\ buf[r][d] # <<>>
    /\ peer[r][Dst(d)] # "closed"
    /\ \E k \in 1..Len(buf[r][d]) :
        /\ delivered' = [delivered EXCEPT ![r][d] = @ \o Prefix(buf[r][d], k)]
        /\ buf' = [buf EXCEPT ![r][d] = Suffix(@, k)]
    /\ UNCHANGED <<users, pureVars, reqVars, tunVars, written, wire, dirSt>>

\* Line 210, end of stream on a copy direction: the source wrote all it had
\* and closed, the buffer is flushed, the destination's write side is shut
\* down; the other direction goes on.
CopyEof(r, d) ==
    /\ tunnel[r] = "Relaying"
    /\ dirSt[r][d] = "Running"
    /\ wire[r][d] = <<>>
    /\ buf[r][d] = <<>>
    /\ peer[r][Src(d)] \in {"shut", "closed"}
    /\ dirSt' = [dirSt EXCEPT ![r][d] = "Done"]
    /\ UNCHANGED <<users, pureVars, reqVars, tunVars, written, wire, buf, delivered>>

\* A relay error that brings down every task of the runtime with its own.
CopyError_aborts_all(r, d) ==
    /\ tunnel[r] = "Relaying"
    /\ dirSt[r][d] = "Running"
    /\ buf[r][d] # <<>>
    /\ peer[r][Dst(d)] = "closed"
    /\ tunnel' = [q \in Reqs |->
                    IF tunnel[q] \in {"None", "Closed"} THEN tunnel[q] ELSE "Errored"]
    /\ streams' = [q \in Reqs |-> {}]
    /\ UNCHANGED <<users, pureVars, reqVars, upgraded, dialed, peer, relayVars>>

\* A failed write that is tried again and again instead of being returned.
CopyError_retried(r, d) ==
    /\ FALSE
    /\ UNCHANGED vars

\* Line 210, `?`, and lines 186-188: a write to a connection its peer has
\* closed fails; copy_bidirectional returns the error at once and the task
\* ends, dropping both streams.
CopyError(r, d) ==
    /\ tunnel[r] = "Relaying"
    /\ dirSt[r][d] = "Running"
    /\ buf[r][d] # <<>>
    /\ peer[r][Dst(d)] = "closed"
    /\ tunnel' = [tunnel EXCEPT ![r] = "Errored"]
    /\ streams' = [streams EXCEPT ![r] = {}]
    /\ UNCHANGED <<users, pureVars, reqVars, upgraded, dialed, peer, relayVars>>

\* copy_bidirectional returning as soon as one direction has ended.
RelayDone_first_direction(r) ==
    /\ tunnel[r] = "Relaying"
    /\ \E d \in Dirs : dirSt[r][d] = "Done"
    /\ tunnel' = [tunnel EXCEPT ![r] = "Closed"]
    /\ streams' = [streams EXCEPT ![r] = {}]
    /\ UNCHANGED <<users, pureVars, reqVars, upgraded, dialed, peer, relayVars>>

\* Lines 209-217: copy_bidirectional returns when both directions have
\* ended; tunnel logs the byte counts and returns, dropping both streams.
RelayDone(r) ==
    /\ tunnel[r] = "Relaying"
    /\ \A d \in Dirs : dirSt[r][d] = "Done"
    /\ tunnel' = [tunnel EXCEPT ![r] = "Closed"]
    /\ streams' = [streams EXCEPT ![r] = {}]
    /\ UNCHANGED <<users, pureVars, reqVars, upgraded, dialed, peer, relayVars>>

(***************************************************************************)
(* Specifications.                                                         *)
(***************************************************************************)

NoStreams == [d \in Dirs |-> <<>>]

\* No request has arrived.
ServerIdle ==
    /\ req = [r \in Reqs |-> NoRequest]
    /\ phase = [r \in Reqs |-> "idle"]
    /\ resp = [r \in Reqs |-> NoResponse]
    /\ respSent = [r \in Reqs |-> FALSE]
    /\ outbound = [r \in Reqs |-> 0]
    /\ tunnel = [r \in Reqs |-> "None"]
    /\ upgraded = [r \in Reqs |-> FALSE]
    /\ dialed = [r \in Reqs |-> FALSE]
    /\ streams = [r \in Reqs |-> {}]
    /\ peer = [r \in Reqs |-> [s \in Sides |-> "open"]]
    /\ written = [r \in Reqs |-> NoStreams]
    /\ wire = [r \in Reqs |-> NoStreams]
    /\ buf = [r \in Reqs |-> NoStreams]
    /\ delivered = [r \in Reqs |-> NoStreams]
    /\ dirSt = [r \in Reqs |-> [d \in Dirs |-> "Running"]]

\* Nothing has been handed to the functions checked on their own.
PureIdle ==
    /\ authIn = NoHeader
    /\ authOut = <<>>
    /\ authResp = NoResponse
    /\ connIn = [raw |-> <<>>, uri |-> NoUri]
    /\ connOut = <<>>

\* The server: main has loaded the configuration (lines 252-263) and serves.
Init ==
    /\ users = ServerUsers
    /\ PureIdle
    /\ ServerIdle

\* The steps of the tunnel of request r that move no payload: the response
\* to the CONNECT, the task up to the relay, the peers closing, the end of
\* the copy directions and of the relay.
TunnelControl(r) ==
    \/ ReturnConnect(r)
    \/ SendResponse(r)
    \/ UpgradeOk(r)
    \/ UpgradeErr(r)
    \/ Dial(r)
    \/ DialOk(r)
    \/ DialErr(r)
    \/ StartRelay(r)
    \/ \E side \in Sides : PeerShutdown(r, side)
    \/ \E side \in Sides : PeerClose(r, side)
    \/ \E d \in Dirs : CopyEof(r, d)
    \/ RelayDone(r)

\* The steps of the tunnel of request r that move payload bytes.
TunnelData(r) ==
    \/ \E side \in Sides : PeerWrite(r, side)
    \/ \E d \in Dirs : CopyRead(r, d)
    \/ \E d \in Dirs : CopyWrite(r, d)
    \/ \E d \in Dirs : CopyError(r, d)

\* The server: requests arrive and are answered while the tunnels of earlier
\* CONNECT requests are set up and torn down; the payload of a tunnel is the
\* matter of RelaySpec.
Next ==
    \E r \in Reqs :
        \/ HandleRequest(r)
        \/ HttpOk(r)
        \/ HttpErr(r)
        \/ TunnelControl(r)

Spec == Init /\ [][Next]_vars

\* AuthSpec: lines 109-113 of handle_request for every bounded header and
\* users map: is_valid_basic, and the response when it returns false.
AuthInit ==
    /\ users \in UserMaps
    /\ authIn \in AuthHeaders
    /\ authOut = <<>>
    /\ authResp = NoResponse
    /\ connIn = [raw |-> <<>>, uri |-> NoUri]
    /\ connOut = <<>>
    /\ ServerIdle

Authenticate ==
    /\ authOut = <<>>
    /\ authOut' = <<is_valid_basic(users, authIn)>>
    /\ authResp' = IF is_valid_basic(users, authIn) THEN NoResponse
                   ELSE unauthorized_response
    /\ UNCHANGED <<users, authIn, connIn, connOut, reqVars, tunVars, relayVars>>

AuthNext == Authenticate

AuthSpec == AuthInit /\ [][AuthNext]_vars

\* ResolveSpec: lines 150-173 of handle_connect for every bounded target.
ResolveInit ==
    /\ users = ServerUsers
    /\ authIn = NoHeader
    /\ authOut = <<>>
    /\ authResp = NoResponse
    /\ connIn \in ConnectRequests
    /\ connOut = <<>>
    /\ ServerIdle

Resolve ==
    /\ connOut = <<>>
    /\ connOut' = <<ConnectTarget(connIn.uri)>>
    /\ UNCHANGED <<users, authIn, authOut, authResp, connIn, reqVars, tunVars, relayVars>>

ResolveNext == Resolve

ResolveSpec == ResolveInit /\ [][ResolveNext]_vars

\* RelaySpec: one tunnel with its payload, from the spawn of its task on
\* (the state handle_request leaves at line 194); request 1 is an
\* authenticated CONNECT that handle_request has routed to handle_connect.
RelayRequest ==
    [ method |-> "CONNECT",
      target |-> Str(<<"h", ":", "8", "4", "4", "3">>),
      header |-> SomeHeader(BasicWord \o Space \o Base64Encode(Str(<<"u", ":", "p">>))) ]

RelayInit ==
    /\ users = ServerUsers
    /\ PureIdle
    /\ req = [r \in Reqs |-> IF r = 1 THEN RelayRequest ELSE NoRequest]
    /\ phase = [r \in Reqs |-> IF r = 1 THEN "spawned" ELSE "idle"]
    /\ resp = [r \in Reqs |-> NoResponse]
    /\ respSent = [r \in Reqs |-> FALSE]
    /\ outbound = [r \in Reqs |-> 0]
    /\ tunnel = [r \in Reqs |-> IF r = 1 THEN "Requested" ELSE "None"]
    /\ upgraded = [r \in Reqs |-> FALSE]
    /\ dialed = [r \in Reqs |-> FALSE]
    /\ streams = [r \in Reqs |-> {}]
    /\ peer = [r \in Reqs |-> [s \in Sides |-> "open"]]
    /\ written = [r \in Reqs |-> NoStreams]
    /\ wire = [r \in Reqs |-> NoStreams]
    /\ buf = [r \in Reqs |-> NoStreams]
    /\ delivered = [r \in Reqs |-> NoStreams]
    /\ dirSt = [r \in Reqs |-> [d \in Dirs |-> "Running"]]

RelayNext == TunnelControl(1) \/ TunnelData(1)

RelaySpec == RelayInit /\ [][RelayNext]_vars

\* The task of a tunnel is polled again whenever it can make a step: the
\* runtime is fair to the steps of the proxy; nothing is assumed of the
\* peers or of the network.
RelayFairness ==
    /\ WF_vars(UpgradeOk(1))
    /\ WF_vars(Dial(1))
    /\ WF_vars(StartRelay(1))
    /\ WF_vars(RelayDone(1))
    /\ \A d \in Dirs :
        /\ WF_vars(CopyRead(1, d))
        /\ WF_vars(CopyWrite(1, d))
        /\ WF_vars(CopyEof(1, d))
        /\ WF_vars(CopyError(1, d))

FairRelaySpec == RelaySpec /\ RelayFairness

\* IsolationSpec: the tunnel of request 1 relays its payload (the state the
\* server is in once the dial of line 206 has succeeded) while the server
\* handles the other requests and runs their tunnel tasks.
IsolationInit ==
    /\ users = ServerUsers
    /\ PureIdle
    /\ req = [r \in Reqs |-> IF r = 1 THEN RelayRequest ELSE NoRequest]
    /\ phase = [r \in Reqs |-> IF r = 1 THEN "responded" ELSE "idle"]
    /\ resp = [r \in Reqs |-> IF r = 1 THEN connect_response ELSE NoResponse]
    /\ respSent = [r \in Reqs |-> r = 1]
    /\ outbound = [r \in Reqs |-> 0]
    /\ tunnel = [r \in Reqs |-> IF r = 1 THEN "Connected" ELSE "None"]
    /\ upgraded = [r \in Reqs |-> r = 1]
    /\ dialed = [r \in Reqs |-> r = 1]
    /\ streams = [r \in Reqs |-> IF r = 1 THEN Sides ELSE {}]
    /\ peer = [r \in Reqs |-> [s \in Sides |-> "open"]]
    /\ written = [r \in Reqs |-> NoStreams]
    /\ wire = [r \in Reqs |-> NoStreams]
    /\ buf = [r \in Reqs |-> NoStreams]
    /\ delivered = [r \in Reqs |-> NoStreams]
    /\ dirSt = [r \in Reqs |-> [d \in Dirs |-> "Running"]]

IsolationNext ==
    \/ TunnelControl(1)
    \/ TunnelData(1)
    \/ \E r \in Reqs \ {1} :
          \/ HandleRequest(r)
          \/ HttpOk(r)
          \/ HttpErr(r)
          \/ TunnelControl(r)

IsolationSpec == IsolationInit /\ [][IsolationNext]_vars

(***************************************************************************)
(* Claims about is_valid_basic (AuthSpec).                                 *)
(***************************************************************************)

\* The header a client builds for a username and a password.
BasicHeaderFor(user, pass) ==
    SomeHeader(BasicWord \o Space \o Base64Encode(user \o <<Colon>> \o pass))

IsBlank(b) == b = 32 \/ b = 9

\* a and b are the same byte, or the same ASCII letter in the two cases.
SameLetter(a, b) ==
    \/ a = b
    \/ a \in 65..90 /\ b = a + 32
    \/ a \in 97..122 /\ b = a - 32

\* v is: a word that is "Basic" in any letter case, one or more blanks,
\* then exactly enc.
IsBasicFraming(v, enc) ==
    \E n \in 1..(Len(v) - Len(BasicWord) - Len(enc)) :
        /\ Len(v) = Len(BasicWord) + n + Len(enc)
        /\ \A i \in 1..Len(BasicWord) : SameLetter(v[i], BasicWord[i])
        /\ \A i \in 1..n : IsBlank(v[Len(BasicWord) + i])
        /\ Suffix(v, Len(BasicWord) + n) = enc

\* The header h carries valid credentials for the users map u: it is the
\* word Basic in any letter case, one or more blanks, and the base64 of
\* username:password for a username of u, free of ':', and its password.
HoldsCredentials(u, h) ==
    /\ h.some
    /\ \E k \in DOMAIN u :
        /\ ~HasColon(k)
        /\ IsBasicFraming(h.value, Base64Encode(k \o <<Colon>> \o u[k]))

C9_TargetResolution ==
    connOut # <<>> =>
        \A h \in PlainHosts :
            /\ connIn.raw = h => connOut[1] = h \o DefaultPort
            /\ \A pt \in Ports :
                connIn.raw = h \o pt => connOut[1] = h \o pt
            /\ \A sc \in Schemes, pa \in Paths :
                /\ connIn.raw = sc \o SchemeSep \o h \o pa
                      => connOut[1] = h \o DefaultPort
                /\ \A pt \in Ports :
                      connIn.raw = sc \o SchemeSep \o h \o pt \o pa
                          => connOut[1] = h \o pt

\* "https://example.com/x" has been resolved.
C9_Witness ==
    /\ connOut # <<>>
    /\ connIn.raw = Str(<<"h", "t", "t", "p", "s">>) \o SchemeSep
                      \o Str(<<"e", "x", "a", "m", "p", "l", "e", ".", "c", "o", "m", "/", "x">>)
    /\ connOut[1] = Str(<<"e", "x", "a", "m", "p", "l", "e", ".", "c", "o", "m">>)
                      \o DefaultPort

IsDigit(b) == b \in 48..57

\* t ends with ':' and one or more digits.
EndsWithPort(t) ==
    \E i \in 1..(Len(t) - 1) :
        t[i] = Colon /\ \A j \in (i + 1)..Len(t) : IsDigit(t[j])

\* C10: every target handed to the tunnel task ends with a port delimiter
\* followed by a port number.
C10_TargetHasPort ==
    connOut # <<>> => EndsWithPort(connOut[1])


(***************************************************************************)
(* Claims about the denial (AuthSpec).                                     *)
(***************************************************************************)

\* C4: every denial, whatever made is_valid_basic return false, is the
\* response with status 407, the header Proxy-Authenticate: Basic
\* realm="Secure Proxy" and the body "Proxy authentication required".
C4_DenialIs407WithChallenge ==
    authOut = <<FALSE>> =>
        /\ authResp.status = 407
        /\ authResp.headers = {<<"Proxy-Authenticate", "Basic realm=\"Secure Proxy\"">>}
        /\ authResp.body = "Proxy authentication required"

\* A request whose header is not base64 has been denied with the 407.
C4_Witness ==
    /\ authOut = <<FALSE>>
    /\ authIn = SomeHeader(BasicWord \o Space \o Str(<<"d", "T", "p", "!">>))
    /\ authResp.status = 407

(***************************************************************************)
(* Claims about handle_request and the tunnel task (Spec).                 *)
(***************************************************************************)

\* The request is the health check: a GET of the path /health.
IsHealthCheck(rq) == rq.method = "GET" /\ UriPath(RequestUri(rq)) = HealthPath

\* Whether each header a client of the server sends carries valid
\* credentials for the users the server runs with.
ServerCredentials == [h \in ServerHeaders |-> HoldsCredentials(ServerUsers, h)]

\* C1: a request that is not the health check and carries no valid
\* credentials, CONNECT included, gets the deny response, and nothing
\* outbound is ever done for it: no client.request, no tunnel task, no
\* upgrade, no dial.
C1_DeniedRequestsGoNowhere ==
    \A r \in Reqs :
        ( /\ phase[r] # "idle"
          /\ ~IsHealthCheck(req[r])
          /\ users = ServerUsers
          /\ ~ServerCredentials[req[r].header] )
        => /\ phase[r] = "responded"
           /\ resp[r] = unauthorized_response
           /\ outbound[r] = 0
           /\ tunnel[r] = "None"
           /\ ~upgraded[r]
           /\ ~dialed[r]

\* A CONNECT with a wrong password has been answered with the denial.
C1_Witness ==
    \E r \in Reqs :
        /\ req[r].method = "CONNECT"
        /\ req[r].header = SomeHeader(BasicWord \o Space \o Base64Encode(Str(<<"u", ":", "x">>)))
        /\ resp[r] = unauthorized_response
        /\ respSent[r]

\* C3 as stated: every request to the path /health, of any method, is
\* answered with status 200 and body "OK" without authentication.
C3_HealthPathAnyMethod ==
    \A r \in Reqs :
        (phase[r] # "idle" /\ UriPath(RequestUri(req[r])) = HealthPath)
        => /\ phase[r] = "responded"
           /\ resp[r].status = 200
           /\ resp[r].body = "OK"

\* C3 as amended: every GET request to the path /health, with credential
\* headers present, absent, valid or invalid, is answered with status 200
\* and body "OK" without authentication (and nothing is forwarded).
C3_HealthGet ==
    \A r \in Reqs :
        ( /\ phase[r] # "idle"
          /\ req[r].method = "GET"
          /\ UriPath(RequestUri(req[r])) = HealthPath )
        => /\ phase[r] = "responded"
           /\ resp[r].status = 200
           /\ resp[r].body = "OK"
           /\ outbound[r] = 0
           /\ tunnel[r] = "None"

\* GET /health with a wrong password has been answered 200 "OK".
C3_Witness ==
    \E r \in Reqs :
        /\ req[r].method = "GET"
        /\ req[r].target = HealthPath
        /\ req[r].header = SomeHeader(BasicWord \o Space \o Base64Encode(Str(<<"u", ":", "x">>)))
        /\ resp[r] = health_response

\* C5: the dial and the relay of a tunnel start only after the 200 to the
\* CONNECT has been sent to the client and the upgrade has completed.
C5_DialAfterResponseAndUpgrade ==
    \A r \in Reqs :
        /\ upgraded[r] => respSent[r] /\ resp[r] = connect_response
        /\ dialed[r] => upgraded[r] /\ respSent[r] /\ resp[r] = connect_response
        /\ tunnel[r] \in {"Dialing", "Connected", "Relaying", "Closed"}
              => dialed[r] /\ upgraded[r] /\ respSent[r]

\* A tunnel relays while another task was spawned before its 200 was
\* returned and still awaits the upgrade.
C5_Witness ==
    \E r, q \in Reqs :
        /\ tunnel[r] = "Relaying" /\ dialed[r]
        /\ tunnel[q] = "Requested" /\ phase[q] = "spawned"

(***************************************************************************)
(* Claims about the relay (RelaySpec, FairRelaySpec).                      *)
(***************************************************************************)

\* C6: half-close is honoured. When the client-to-target direction has
\* ended, the relay goes on; the tunnel is Closed only when both directions
\* have ended, and then the client has been given every byte the target
\* wrote.
C6_HalfCloseHonoured ==
    \A r \in Reqs :
        /\ tunnel[r] = "Closed" =>
              /\ \A d \in Dirs : dirSt[r][d] = "Done"
              /\ delivered[r]["t2c"] = written[r]["t2c"]
        /\ ( /\ tunnel[r] = "Relaying"
             /\ dirSt[r]["c2t"] = "Done"
             /\ dirSt[r]["t2c"] = "Running" )
           => /\ (wire[r]["t2c"] # <<>> /\ Len(buf[r]["t2c"]) < BufCap
                    => ENABLED CopyRead(r, "t2c"))
              /\ (buf[r]["t2c"] # <<>> /\ peer[r]["client"] # "closed"
                    => ENABLED CopyWrite(r, "t2c"))

\* The client has half-closed and its direction has ended; the target's
\* bytes are still on their way: some delivered, some not yet read.
C6_Witness ==
    \E r \in Reqs :
        /\ tunnel[r] = "Relaying"
        /\ peer[r]["client"] = "shut"
        /\ dirSt[r]["c2t"] = "Done"
        /\ dirSt[r]["t2c"] = "Running"
        /\ delivered[r]["t2c"] # <<>>
        /\ wire[r]["t2c"] # <<>>

\* C7: in each direction the bytes delivered are a prefix of the bytes
\* written, and all of them once the direction has ended by end of stream.
C7_DeliveredIsPrefixOfWritten ==
    \A r \in Reqs : \A d \in Dirs :
        /\ IsPrefixOf(delivered[r][d], written[r][d])
        /\ dirSt[r][d] = "Done" => delivered[r][d] = written[r][d]

\* Both directions have ended after carrying MaxBytes bytes each.
C7_Witness ==
    \E r \in Reqs : \A d \in Dirs :
        /\ dirSt[r][d] = "Done"
        /\ Len(delivered[r][d]) = MaxBytes

Terminated(r) == tunnel[r] \in {"Closed", "Errored"}

\* C8 as stated: once either peer has closed its side of a relaying tunnel,
\* the relay eventually terminates, whatever the other peer does.
C8_OneCloseTerminates ==
    (tunnel[1] = "Relaying" /\ \E side \in Sides : peer[1][side] # "open")
        ~> Terminated(1)

\* C8 as amended: once both peers have closed their sides of a relaying
\* tunnel, the relay eventually terminates (Closed or Errored) under fair
\* scheduling of the copy directions.
C8_BothClosedTerminates ==
    (tunnel[1] = "Relaying" /\ \A side \in Sides : peer[1][side] # "open")
        ~> Terminated(1)

\* A relay has ended after both peers closed, with bytes carried.
C8_Witness ==
    /\ tunnel[1] = "Closed"
    /\ \A side \in Sides : peer[1][side] # "open"
    /\ delivered[1]["c2t"] # <<>>


(***************************************************************************)
(* Claims about the request cycle (Spec).                                  *)
(***************************************************************************)

\* The tunnel of some request is still at work: its task awaits the
\* upgrade, dials or relays.
TunnelAtWork(q) ==
    tunnel[q] \in {"Requested", "Upgraded", "Dialing", "Connected", "Relaying"}

\* The request in slot r is the next one the server is handed.
NextToArrive(r) == phase[r] = "idle" /\ \A q \in 1..(r - 1) : phase[q] # "idle"

\* C11: tunnel work is detached from the request cycle. The 200 of a
\* CONNECT is returned while its task still awaits the upgrade, before any
\* dial or relay; and whatever the tunnels of the other requests are doing,
\* a new request can be dispatched, a forwarded request can be answered and
\* a returned response can be sent.
C11_TunnelWorkDetached ==
    \A r \in Reqs :
        /\ phase[r] = "spawned" =>
              /\ ENABLED ReturnConnect(r)
              /\ ~upgraded[r] /\ ~dialed[r]
        /\ NextToArrive(r) => ENABLED HandleRequest(r)
        /\ phase[r] = "forwarding" => ENABLED HttpOk(r) /\ ENABLED HttpErr(r)
        /\ (phase[r] = "responded" /\ ~respSent[r] /\ tunnel[r] = "None")
              => ENABLED SendResponse(r)

\* While the tunnel of the first request relays, the second request has
\* been dispatched to the origin and its answer can come.
C11_Witness ==
    /\ tunnel[1] = "Relaying"
    /\ phase[1] = "responded" /\ respSent[1]
    /\ phase[2] = "forwarding"
    /\ ENABLED HttpOk(2)

\* The request was admitted and is not a CONNECT: handle_http got it.
IsForwarded(r) ==
    /\ phase[r] # "idle"
    /\ req[r].method # "CONNECT"
    /\ ~IsHealthCheck(req[r])
    /\ users = ServerUsers
    /\ ServerCredentials[req[r].header]

\* C12: an authenticated non-CONNECT request makes exactly one outbound
\* attempt and gets one response from handle_http itself: the origin's
\* response as it came, or a 500 with a text body naming the error; no
\* tunnel task is involved.
C12_OneAttemptOneResponse ==
    \A r \in Reqs :
        IsForwarded(r) =>
            /\ outbound[r] = 1
            /\ tunnel[r] = "None"
            /\ phase[r] \in {"forwarding", "responded"}
            /\ phase[r] = "forwarding" => resp[r] = NoResponse /\ ~respSent[r]
            /\ phase[r] = "responded" =>
                  \/ resp[r] \in OriginResponses
                  \/ /\ resp[r].status = 500
                     /\ resp[r].body = "Proxy error: <err>"

\* One forwarded request got the origin's answer, another the 500.
C12_Witness ==
    \E r, q \in Reqs :
        /\ IsForwarded(r) /\ resp[r] \in OriginResponses /\ respSent[r]
        /\ IsForwarded(q) /\ resp[q] = proxy_error_response /\ respSent[q]


(***************************************************************************)
(* Claims about the failures of the tunnel task (Spec).                    *)
(***************************************************************************)

\* Some step of the task of request r, or of its relay, can be taken.
TaskCanStep(r) ==
    \/ ENABLED UpgradeOk(r) \/ ENABLED UpgradeErr(r)
    \/ ENABLED Dial(r) \/ ENABLED DialOk(r) \/ ENABLED DialErr(r)
    \/ ENABLED StartRelay(r) \/ ENABLED RelayDone(r)
    \/ \E d \in Dirs : \/ ENABLED CopyRead(r, d) \/ ENABLED CopyWrite(r, d)
                       \/ ENABLED CopyEof(r, d) \/ ENABLED CopyError(r, d)

\* No byte has been copied in either direction of the tunnel of request r.
NothingRelayed(r) ==
    \A d \in Dirs : buf[r][d] = <<>> /\ delivered[r][d] = <<>> /\ dirSt[r][d] = "Running"

\* C13: when the dial of a tunnel fails, the step leaves the response as it
\* was, the 200 already sent; it drops the upgraded client stream, so the
\* task holds no stream; no relay has started and none can: the tunnel is
\* Errored for good and nothing more is sent to the client.
C13_DialFailureEndsTunnel ==
    /\ [][ \A r \in Reqs :
             (tunnel[r] = "Dialing" /\ tunnel'[r] = "Errored") =>
                 /\ resp'[r] = resp[r] /\ resp[r] = connect_response
                 /\ respSent[r] /\ respSent'[r]
                 /\ streams[r] = {"client"} /\ streams'[r] = {}
                 /\ NothingRelayed(r)' ]_vars
    /\ [](\A r \in Reqs :
             (tunnel[r] = "Errored" /\ dialed[r]) =>
                 /\ streams[r] = {}
                 /\ resp[r] = connect_response /\ respSent[r]
                 /\ ~TaskCanStep(r)
                 /\ ~ENABLED SendResponse(r))

\* A dial has failed: the tunnel is Errored, the 200 went out before.
C13_Witness ==
    \E r \in Reqs :
        /\ tunnel[r] = "Errored" /\ dialed[r] /\ upgraded[r]
        /\ NothingRelayed(r)
        /\ streams[r] = {}
        /\ resp[r] = connect_response /\ respSent[r]

\* C17: when the upgrade fails, the tunnel goes to Errored with no dial made
\* then or later, the task holds no stream, and the client is sent nothing:
\* the only response the handler returns is the 200.
C17_UpgradeFailureEndsTunnel ==
    /\ [][ \A r \in Reqs :
             (tunnel[r] = "Requested" /\ tunnel'[r] # "Requested" /\ ~upgraded'[r]) =>
                 /\ tunnel'[r] = "Errored"
                 /\ ~dialed'[r]
                 /\ streams'[r] = {}
                 /\ resp'[r] = resp[r] /\ respSent'[r] = respSent[r] ]_vars
    /\ [](\A r \in Reqs :
             (tunnel[r] = "Errored" /\ ~upgraded[r]) =>
                 /\ ~dialed[r]
                 /\ streams[r] = {}
                 /\ ~TaskCanStep(r)
                 /\ ~ENABLED SendResponse(r)
                 /\ resp[r] \in {NoResponse, connect_response})

\* An upgrade has failed after the handler returned the 200.
C17_Witness ==
    \E r \in Reqs :
        /\ tunnel[r] = "Errored" /\ ~upgraded[r] /\ ~dialed[r]
        /\ phase[r] = "responded" /\ resp[r] = connect_response


(***************************************************************************)
(* Claims about the configuration (Spec).                                  *)
(***************************************************************************)

\* Request r went through the authentication of lines 109-113.
IsAuthenticated(r) == phase[r] # "idle" /\ ~IsHealthCheck(req[r])

\* Request r was denied at line 112.
IsDenied(r) == resp[r] = unauthorized_response

\* C15: no step of the server, request or tunnel, changes the users table
\* loaded at start, and so two requests with the same header get the same
\* decision whenever each of them arrives.
C15_ConfigNeverModified ==
    /\ [][users' = users]_vars
    /\ [](users = ServerUsers)
    /\ [](\A r, q \in Reqs :
             (IsAuthenticated(r) /\ IsAuthenticated(q) /\ req[r].header = req[q].header)
             => (IsDenied(r) <=> IsDenied(q)))

\* The same valid header was admitted twice, the second time after the
\* tunnel of the first request had come and gone; and the table is as loaded.
C15_Witness ==
    /\ IsAuthenticated(1) /\ IsAuthenticated(2)
    /\ req[1].header = req[2].header
    /\ req[1].method = "CONNECT" /\ tunnel[1] = "Closed"
    /\ ~IsDenied(1) /\ ~IsDenied(2)
    /\ phase[2] = "forwarding"
    /\ users = ServerUsers


(***************************************************************************)
(* Claims about the order of a tunnel's states (RelaySpec).                *)
(***************************************************************************)

\* The stage of the state machine Requested -> Upgraded -> Connected ->
\* Relaying -> Closed a place of the task belongs to: the task is at the
\* Connected stage from the call of TcpStream::connect to the relay.
Stage(t) ==
    CASE t = "None"      -> 0
      [] t = "Requested" -> 1
      [] t = "Upgraded"  -> 2
      [] t = "Dialing"   -> 3
      [] t = "Connected" -> 3
      [] t = "Relaying"  -> 4
      [] t = "Closed"    -> 5
      [] OTHER           -> 6

\* The place that follows each place of the task when nothing fails.
Successor(t) ==
    CASE t = "None"      -> "Requested"
      [] t = "Requested" -> "Upgraded"
      [] t = "Upgraded"  -> "Dialing"
      [] t = "Dialing"   -> "Connected"
      [] t = "Connected" -> "Relaying"
      [] t = "Relaying"  -> "Closed"
      [] OTHER           -> t

\* C16 as stated: a tunnel moves through the stages in order, one at a time
\* and never back, and Errored is entered only while the upgrade or the dial
\* is under way, never from Relaying.
C16_ErroredNeverFromRelaying ==
    [][ \A r \in Reqs :
          tunnel'[r] # tunnel[r] =>
              \/ /\ tunnel'[r] # "Errored"
                 /\ Stage(tunnel'[r]) \in {Stage(tunnel[r]), Stage(tunnel[r]) + 1}
              \/ /\ tunnel'[r] = "Errored"
                 /\ Stage(tunnel[r]) \in {1, 2, 3} ]_vars

\* C16 as amended: a tunnel moves through the states in order, one at a time
\* and never back; Errored is entered from the wait for the upgrade, from
\* the dial, or from Relaying when a copy direction meets an I/O error; and
\* Closed and Errored are never left.
C16_TunnelStateOrder ==
    [][ \A r \in Reqs :
          tunnel'[r] # tunnel[r] =>
              /\ tunnel[r] \notin {"Closed", "Errored"}
              /\ \/ tunnel'[r] = Successor(tunnel[r])
                 \/ /\ tunnel'[r] = "Errored"
                    /\ tunnel[r] \in {"Requested", "Dialing", "Relaying"} ]_vars

\* A relay has ended in Errored: bytes of the target were left in the
\* buffer when the client had closed its connection.
C16_Witness ==
    /\ tunnel[1] = "Errored"
    /\ upgraded[1] /\ dialed[1]
    /\ buf[1]["t2c"] # <<>>
    /\ peer[1]["client"] = "closed"


(***************************************************************************)
(* Claims about failure isolation (IsolationSpec).                         *)
(***************************************************************************)

\* All there is to know of the request in slot q and of its tunnel.
SlotState(q) ==
    << req[q], phase[q], resp[q], respSent[q], outbound[q],
       tunnel[q], upgraded[q], dialed[q], streams[q], peer[q],
       written[q], wire[q], buf[q], delivered[q], dirSt[q] >>

\* The request side of slot r: what the handler and hyper did for it.
RequestState(r) == <<req[r], phase[r], resp[r], respSent[r], outbound[r]>>

\* C14: the step by which a tunnel fails (upgrade, dial or relay error)
\* changes that tunnel only: every other slot, request and tunnel, is as it
\* was, the failing tunnel's own request side too, and the configuration;
\* and with any number of failed tunnels the next request is dispatched.
C14_FailureIsolation ==
    /\ [][ \A r \in Reqs :
             (tunnel[r] # "Errored" /\ tunnel'[r] = "Errored") =>
                 /\ \A q \in Reqs \ {r} : SlotState(q)' = SlotState(q)
                 /\ RequestState(r)' = RequestState(r)
                 /\ users' = users ]_vars
    /\ [](\A r \in Reqs : NextToArrive(r) => ENABLED HandleRequest(r))
    /\ [](\A r \in Reqs : phase[r] = "forwarding" => ENABLED HttpOk(r))

\* The relay of the first tunnel has failed on a write to its closed client
\* while the second tunnel relays on.
C14_Witness ==
    /\ tunnel[1] = "Errored"
    /\ \E d \in Dirs : buf[1][d] # <<>> /\ peer[1][Dst(d)] = "closed"
    /\ tunnel[2] = "Relaying"
    /\ streams[2] = Sides


(***************************************************************************)
(* Claims about the shape of the credentials (AuthSpec).                   *)
(***************************************************************************)

\* The number of ':' in a text.
CountColons(t) == Cardinality({i \in 1..Len(t) : t[i] = Colon})

\* The texts a client encodes that is_valid_basic gets to split: valid UTF-8.
SplitTexts == {t \in CredTexts : IsUtf8(t)}

\* The header is `Basic <base64>` of the text t.
CarriesText(t) == authIn = SomeHeader(BasicWord \o Space \o Base64Encode(t))

\* C18 as stated: a decoded text that does not hold exactly one ':' is
\* denied, whatever the users map holds.
C18_DeniedUnlessOneColon ==
    \A t \in SplitTexts :
        (authOut # <<>> /\ CarriesText(t) /\ CountColons(t) # 1)
        => authOut = <<FALSE>>

\* C18 as amended: a decoded text without ':' is denied; a text with two or
\* more ':' is split at the first one, and is admitted exactly when the text
\* before it is a user whose stored password is all the text after it.
C18_SplitAtFirstColon ==
    \A t \in SplitTexts :
        (authOut # <<>> /\ CarriesText(t)) =>
            /\ CountColons(t) = 0 => authOut = <<FALSE>>
            /\ CountColons(t) >= 2 =>
                  ( authOut[1] <=>
                      \E k \in DOMAIN users :
                          /\ CountColons(k) = 0
                          /\ t = k \o <<Colon>> \o users[k] )

\* u:p:q has been admitted for the user u whose password is p:q.
C18_Witness ==
    /\ authOut = <<TRUE>>
    /\ CarriesText(Str(<<"u", ":", "p", ":", "q">>))
    /\ users = (Str(<<"u">>) :> Str(<<"p", ":", "q">>))

\* The header values whose encoded credentials are right for the users map.
ValidPayloads ==
    { Base64Encode(k \o <<Colon>> \o users[k]) :
        k \in {x \in DOMAIN users : CountColons(x) = 0} }

NamesHealthPath(target) ==
    \/ target = HealthPath
    \/ \E k \in 1..Len(target) :
          LET head == Prefix(target, k)
              sep  == FindStr(head, SchemeSep)
          IN  /\ Suffix(target, k) = HealthPath
              /\ Contains(head, SchemeSep)
              /\ sep >= 1
              /\ sep + Len(SchemeSep) < k
              /\ \A i \in (sep + Len(SchemeSep) + 1)..k : head[i] # Ord("/")

\* Something was done towards an origin for request r, or an answer that
\* only forwarding gives was returned.
WasForwarded(r) ==
    \/ outbound[r] > 0
    \/ phase[r] = "forwarding"
    \/ resp[r] \in OriginResponses \cup {proxy_error_response}

\* C20: a GET whose path is /health is answered by the proxy itself with
\* 200 "OK", whatever host its URI names and whatever its credentials, so
\* no such request is ever forwarded to an origin.
C20_HealthShadowsForwarding ==
    \A r \in Reqs :
        ( /\ phase[r] # "idle"
          /\ req[r].method = "GET"
          /\ NamesHealthPath(req[r].target) )
        => /\ ~WasForwarded(r)
           /\ resp[r] = health_response
           /\ tunnel[r] = "None"

\* GET http://h/health with valid credentials got the proxy's own 200 while
\* the GET of another path of the same host was forwarded.
C20_Witness ==
    \E r, q \in Reqs :
        /\ req[r].method = "GET"
        /\ req[r].target = Str(<<"h", "t", "t", "p", ":", "/", "/", "h">>) \o HealthPath
        /\ users = ServerUsers /\ ServerCredentials[req[r].header]
        /\ resp[r] = health_response /\ respSent[r] /\ outbound[r] = 0
        /\ req[q].method = "GET" /\ outbound[q] = 1

=============================================================================
